---- MODULE Spec2Model ----
(***************************************************************************)
(* Model of the manga tracker (src/src/App.jsx): the Firestore-backed      *)
(* collection, the in-memory copy fed by onSnapshot, the search modal and  *)
(* the add / advance / edit / delete handlers.                             *)
(*                                                                         *)
(* JavaScript values that the code coerces (Number(x) || 0, x || 0) are    *)
(* tagged records [t, n, s]: a number, a string (tuple of characters) or   *)
(* undefined.  Documents and items are functions from field names to       *)
(* values, so that object spread and setDoc(..., {merge: true}) are the    *)
(* field-wise overlay they are in the code.                                *)
(***************************************************************************)
EXTENDS Integers, Sequences, FiniteSets, TLC

VARIABLES
  userId,             \* App state userId: "none" until auth delivers a user
  store,              \* Firestore collection of the user: doc id -> raw record
  nextId,             \* next opaque document id the store will assign
  items,              \* App state items: sequence of normalized records
  now,                \* value Date.now() returns; it moves on with every call
  isSearchModalOpen,  \* App state isSearchModalOpen
  results,            \* SearchModal state results
  isLoading,          \* SearchModal state isLoading (a fetch is in flight)
  error,              \* SearchModal state error
  trackedIds,         \* SearchModal state trackedIds
  isEditing,          \* App state isEditing: <<>> (null) or <<item>>
  isDeleting,         \* App state isDeleting: <<>> (null) or <<item>>
  last,               \* history: the last handler call and what it wrote
  addRequests         \* history: onTrackItem calls per mal_id in this modal

dataVars   == <<userId, store, nextId, items, now>>
searchVars == <<isSearchModalOpen, results, isLoading, error, trackedIds>>
modalVars  == <<isEditing, isDeleting>>
histVars   == <<last, addRequests>>
vars == <<dataVars, searchVars, modalVars, histVars>>

----------------------------------------------------------------------------
(* Bounds of the model *)
MaxDocs == 2        \* documents the store ever creates
MaxNow == 2         \* handler calls that read Date.now(): each reads a later time
MaxChapter == 2     \* the +1 control is not pressed beyond this chapter
MaxDelta == 2       \* largest |delta| handed to handleUpdateChapter directly

----------------------------------------------------------------------------
(* JavaScript values and coercions *)

Num(k)  == [t |-> "num", n |-> k, s |-> <<>>]
Str(cs) == [t |-> "str", n |-> 0, s |-> cs]
Undef   == [t |-> "undef", n |-> 0, s |-> <<>>]
NaN     == [nan |-> TRUE, n |-> 0]
Fin(k)  == [nan |-> FALSE, n |-> k]

Max(a, b) == IF a >= b THEN a ELSE b
Min(a, b) == IF a <= b THEN a ELSE b

Digits == {"0", "1", "2", "3", "4", "5"}
DigitVal(c) == CASE c = "0" -> 0 [] c = "1" -> 1 [] c = "2" -> 2
                 [] c = "3" -> 3 [] c = "4" -> 4 [] c = "5" -> 5

RECURSIVE TrimLeft(_)
TrimLeft(cs) == IF cs # <<>> /\ Head(cs) = " " THEN TrimLeft(Tail(cs)) ELSE cs

RECURSIVE TrimRight(_)
TrimRight(cs) ==
  IF cs # <<>> /\ cs[Len(cs)] = " " THEN TrimRight(SubSeq(cs, 1, Len(cs) - 1)) ELSE cs

\* String.prototype.trim
Trim(cs) == TrimRight(TrimLeft(cs))

AllDigits(cs) == cs # <<>> /\ \A i \in 1..Len(cs) : cs[i] \in Digits

RECURSIVE ParseNat(_)
ParseNat(cs) ==
  IF cs = <<>> THEN 0
  ELSE 10 * ParseNat(SubSeq(cs, 1, Len(cs) - 1)) + DigitVal(cs[Len(cs)])

\* Number(string): surrounding blanks are dropped, the empty string is 0, an
\* optionally signed run of digits is its value, anything else is NaN.
StringToNumber(cs) ==
  LET t == Trim(cs) IN
  IF t = <<>> THEN Fin(0)
  ELSE IF AllDigits(t) THEN Fin(ParseNat(t))
  ELSE IF Head(t) = "-" /\ AllDigits(Tail(t)) THEN Fin(0 - ParseNat(Tail(t)))
  ELSE IF Head(t) = "+" /\ AllDigits(Tail(t)) THEN Fin(ParseNat(Tail(t)))
  ELSE NaN

\* Number(v)
ToNumber(v) ==
  CASE v.t = "num" -> Fin(v.n)
    [] v.t = "str" -> StringToNumber(v.s)
    [] v.t = "undef" -> NaN

\* Number(v) || 0
NumberOrZero(v) == IF ToNumber(v).nan THEN 0 ELSE ToNumber(v).n

\* Boolean(v) for the values above
Truthy(v) ==
  CASE v.t = "num" -> v.n # 0
    [] v.t = "str" -> v.s # <<>>
    [] v.t = "undef" -> FALSE

\* v || 0
OrZero(v) == IF Truthy(v) THEN v ELSE Num(0)

----------------------------------------------------------------------------
(* Objects: functions from field names to values *)

\* { ...a, ...b }, and what setDoc(ref, b, {merge: true}) leaves in a document a
Overlay(a, b) ==
  [f \in DOMAIN a \cup DOMAIN b |-> IF f \in DOMAIN b THEN b[f] ELSE a[f]]

\* obj.f for a field holding a coercible value; a missing field reads undefined
Get(obj, f) == IF f \in DOMAIN obj THEN obj[f] ELSE Undef

\* obj.f || "" for a text field
GetText(obj, f) == IF f \in DOMAIN obj THEN obj[f] ELSE ""

Status == [READING |-> "Reading", PLAN_TO_READ |-> "Plan to Read",
           COMPLETED |-> "Completed", DROPPED |-> "Dropped"]
StatusValues == {Status.READING, Status.PLAN_TO_READ, Status.COMPLETED, Status.DROPPED}

----------------------------------------------------------------------------
(* The catalog the search collaborator answers from *)

Candidate(id, title, type, chapters, image) ==
  [mal_id |-> id, title |-> title, type |-> type, chapters |-> chapters, image |-> image]

C7 == Candidate(7, <<"X">>, "Manhwa", Num(1), "u7")
C8 == Candidate(8, <<"y">>, "", Undef, "")
Catalog == {C7, C8}

\* data.data of the responses the API can give
Responses == {<<>>, <<C7, C8>>}

\* texts typed into the search box
Queries == {<<"a", "b">>, <<" ", "a", "b", " ">>, <<"o", "n", "e">>}

----------------------------------------------------------------------------
(* onSnapshot callback: normalization of a snapshot *)

\* one element of snapshot.docs.map(...)
NormalizeDoc(id, data) ==
  Overlay(Overlay([id |-> id], data),
          [currentChapter |-> Num(NumberOrZero(Get(data, "currentChapter"))),
           totalChapters  |-> Num(NumberOrZero(Get(data, "totalChapters"))),
           rating         |-> Num(NumberOrZero(Get(data, "rating"))),
           notes          |-> GetText(data, "notes"),
           lastUpdated    |-> OrZero(Get(data, "lastUpdated"))])

RECURSIVE SortedIds(_)
SortedIds(S) ==
  IF S = {} THEN <<>>
  ELSE LET m == CHOOSE x \in S : \A y \in S : x <= y IN <<m>> \o SortedIds(S \ {m})

\* snapshot.docs.map(...): the documents in document-id order
NormalizeSnapshot(st) ==
  LET ids == SortedIds(DOMAIN st) IN
  [i \in 1..Len(ids) |-> NormalizeDoc(ids[i], st[ids[i]])]

----------------------------------------------------------------------------
(* handleAddItem *)

\* slip: the document id compared instead of the catalog id
IsAlreadyTrackedById(its, apiResult) ==
  \E i \in 1..Len(its) : "id" \in DOMAIN its[i] /\ its[i].id = apiResult.mal_id

\* items.some(item => item.apiId === apiResult.mal_id)
IsAlreadyTracked(its, apiResult) ==
  \E i \in 1..Len(its) : "apiId" \in DOMAIN its[i] /\ its[i].apiId = apiResult.mal_id

NewItem(apiResult, t) ==
  [apiId          |-> apiResult.mal_id,
   title          |-> apiResult.title,
   type           |-> IF apiResult.type # "" THEN apiResult.type ELSE "Manga",
   status         |-> Status.PLAN_TO_READ,
   currentChapter |-> Num(0),
   totalChapters  |-> OrZero(apiResult.chapters),
   imageUrl       |-> apiResult.image,
   rating         |-> Num(0),
   notes          |-> "",
   lastUpdated    |-> Num(t)]

----------------------------------------------------------------------------
(* handleUpdateChapter *)

\* slip: the floor at 0 left out
NewChapterNoFloor(item, delta) == item.currentChapter.n + delta

\* Math.max(0, item.currentChapter + delta)
NewChapter(item, delta) == Max(0, item.currentChapter.n + delta)

\* slip: the completion test placed before the PlanToRead test
UpdateChapterStatusTotalFirst(item, newChapter) ==
  LET total == NumberOrZero(Get(item, "totalChapters")) IN
  IF total > 0 /\ newChapter >= total THEN Status.COMPLETED
  ELSE IF newChapter > 0 /\ item.status = Status.PLAN_TO_READ THEN Status.READING
  ELSE IF newChapter > 0 /\ newChapter < total /\ item.status = Status.COMPLETED
    THEN Status.READING
  ELSE IF newChapter = 0 /\ item.status = Status.READING THEN Status.PLAN_TO_READ
  ELSE item.status

\* slip: a Dropped item resumed by a positive chapter, like a PlanToRead one
UpdateChapterStatusDroppedResumes(item, newChapter) ==
  LET total == NumberOrZero(Get(item, "totalChapters")) IN
  IF newChapter > 0 /\ item.status \in {Status.PLAN_TO_READ, Status.DROPPED}
    THEN Status.READING
  ELSE IF total > 0 /\ newChapter >= total THEN Status.COMPLETED
  ELSE IF newChapter > 0 /\ newChapter < total /\ item.status = Status.COMPLETED
    THEN Status.READING
  ELSE IF newChapter = 0 /\ item.status = Status.READING THEN Status.PLAN_TO_READ
  ELSE item.status

\* the if / else-if chain that picks newStatus
UpdateChapterStatus(item, newChapter) ==
  LET total == NumberOrZero(Get(item, "totalChapters")) IN
  IF newChapter > 0 /\ item.status = Status.PLAN_TO_READ THEN Status.READING
  ELSE IF total > 0 /\ newChapter >= total THEN Status.COMPLETED
  ELSE IF newChapter > 0 /\ newChapter < total /\ item.status = Status.COMPLETED
    THEN Status.READING
  ELSE IF newChapter = 0 /\ item.status = Status.READING THEN Status.PLAN_TO_READ
  ELSE item.status

\* the object handed to setDoc
\* slip: only the fields that the handler computes are written
UpdateChapterPayloadChangedOnly(item, delta, t) ==
  [currentChapter |-> Num(NewChapter(item, delta)),
   status         |-> UpdateChapterStatus(item, NewChapter(item, delta)),
   lastUpdated    |-> Num(t)]

UpdateChapterPayload(item, delta, t) ==
  Overlay(item, [currentChapter |-> Num(NewChapter(item, delta)),
                 status         |-> UpdateChapterStatus(item, NewChapter(item, delta)),
                 lastUpdated    |-> Num(t)])

----------------------------------------------------------------------------
(* EditModal and handleSaveEdit *)

\* EditModal.handleSubmit: the form data (the item overlaid with the changed
\* inputs) with the star rating
FormSubmit(item, changes, rating) ==
  Overlay(Overlay(item, changes), [rating |-> Num(rating)])

NewCurrent(updatedData) == NumberOrZero(Get(updatedData, "currentChapter"))
NewTotal(updatedData)   == NumberOrZero(Get(updatedData, "totalChapters"))
NewRating(updatedData)  == NumberOrZero(Get(updatedData, "rating"))

\* slip: the completion test placed before the PlanToRead test
SaveEditStatusTotalFirst(status, newCurrent, newTotal) ==
  IF newTotal > 0 /\ newCurrent >= newTotal THEN Status.COMPLETED
  ELSE IF status = Status.PLAN_TO_READ /\ newCurrent > 0 THEN Status.READING
  ELSE status

\* the if / else-if that picks newStatus
SaveEditStatus(status, newCurrent, newTotal) ==
  IF status = Status.PLAN_TO_READ /\ newCurrent > 0 THEN Status.READING
  ELSE IF newTotal > 0 /\ newCurrent >= newTotal THEN Status.COMPLETED
  ELSE status

\* itemToSave, after the imageUrl line
\* slip: the original item is spread over the form data
ItemToSaveFormFirst(orig, updatedData, t) ==
  LET merged == Overlay(Overlay(updatedData, orig),
                  [currentChapter |-> Num(NewCurrent(updatedData)),
                   totalChapters  |-> Num(NewTotal(updatedData)),
                   rating         |-> Num(NewRating(updatedData)),
                   status         |-> SaveEditStatus(updatedData.status,
                                        NewCurrent(updatedData), NewTotal(updatedData)),
                   lastUpdated    |-> Num(t)])
  IN Overlay(merged,
       [imageUrl |-> IF GetText(merged, "imageUrl") # "" THEN merged.imageUrl
                     ELSE GetText(orig, "imageUrl")])

ItemToSave(orig, updatedData, t) ==
  LET merged == Overlay(Overlay(orig, updatedData),
                  [currentChapter |-> Num(NewCurrent(updatedData)),
                   totalChapters  |-> Num(NewTotal(updatedData)),
                   rating         |-> Num(NewRating(updatedData)),
                   status         |-> SaveEditStatus(updatedData.status,
                                        NewCurrent(updatedData), NewTotal(updatedData)),
                   lastUpdated    |-> Num(t)])
  IN Overlay(merged,
       [imageUrl |-> IF GetText(merged, "imageUrl") # "" THEN merged.imageUrl
                     ELSE GetText(orig, "imageUrl")])

----------------------------------------------------------------------------
(* What the user can put into the edit form *)

NoChange == <<>>

\* texts typed into the two chapter inputs
ChapterTexts == {<<>>, <<"2">>, <<"-", "1">>, <<"a">>}

StatusChanges == {NoChange} \cup {[status |-> s] : s \in StatusValues}
CurrentChanges == {NoChange} \cup {[currentChapter |-> Str(cs)] : cs \in ChapterTexts}
TotalChanges == {NoChange} \cup {[totalChapters |-> Str(cs)] : cs \in ChapterTexts}

\* every combination of changed inputs
EditChanges ==
  {Overlay(Overlay(st, cc), tc) :
     st \in StatusChanges, cc \in CurrentChanges, tc \in TotalChanges}

\* the changes made through the form in the whole-application specification
QuickEdits ==
  {NoChange, [status |-> Status.DROPPED], [currentChapter |-> Str(<<"-", "1">>)]}

\* StarRatingInput: the stars that can be lit
totalStars == 10
StarChoices == {totalStars}

----------------------------------------------------------------------------
(* The application as a state machine *)

Range(seq) == {seq[i] : i \in 1..Len(seq)}

NoOp == [op |-> "none"]
NoRequests == [id \in {c.mal_id : c \in Catalog} |-> 0]

\* nothing but the card list is on screen: every modal is a full-screen overlay
NoModal == ~isSearchModalOpen /\ isEditing = <<>> /\ isDeleting = <<>>

Init ==
  /\ userId = "none"
  /\ store = <<>>
  /\ nextId = 1
  /\ items = <<>>
  /\ now = 0
  /\ isSearchModalOpen = FALSE
  /\ results = <<>>
  /\ isLoading = FALSE
  /\ error = "null"
  /\ trackedIds = {}
  /\ isEditing = <<>>
  /\ isDeleting = <<>>
  /\ last = NoOp
  /\ addRequests = NoRequests

\* onAuthStateChanged delivers the user; the subscription effect can run
AuthReady ==
  /\ userId = "none"
  /\ userId' = "u1"
  /\ last' = NoOp
  /\ UNCHANGED <<store, nextId, items, now, searchVars, modalVars, addRequests>>

\* slip: the delivered items are added to the ones already held
SetItemsAppend(prev, trackingItems) == prev \o trackingItems

\* setItems(trackingItems): the state is replaced, whatever it was
SetItems(prev, trackingItems) == trackingItems

\* the onSnapshot callback runs with the current collection
OnSnapshot ==
  /\ userId # "none"
  /\ items' = SetItems(items, NormalizeSnapshot(store))
  /\ last' = [op |-> "snapshot", docs |-> store, had |-> Len(items)]
  /\ UNCHANGED <<userId, store, nextId, now, searchVars, modalVars, addRequests>>

\* "Add New Title": a fresh SearchModal is mounted
OpenSearchModal ==
  /\ userId # "none"
  /\ NoModal
  /\ isSearchModalOpen' = TRUE
  /\ results' = <<>>
  /\ isLoading' = FALSE
  /\ error' = "null"
  /\ trackedIds' = {}
  /\ addRequests' = NoRequests
  /\ last' = NoOp
  /\ UNCHANGED <<dataVars, modalVars>>

\* onClose: the SearchModal is unmounted and its state is gone
CloseSearchModal ==
  /\ isSearchModalOpen
  /\ isSearchModalOpen' = FALSE
  /\ results' = <<>>
  /\ isLoading' = FALSE
  /\ error' = "null"
  /\ trackedIds' = {}
  /\ addRequests' = NoRequests
  /\ last' = NoOp
  /\ UNCHANGED <<dataVars, modalVars>>

\* slip: two characters are taken as enough
QueryTooShortBelowTwo(q) == Len(Trim(q)) < 2

\* query.trim().length < 3
QueryTooShort(q) == Len(Trim(q)) < 3

\* slip: the list of the previous search is left in place
StartResultsKept(prev) == prev

\* setResults([]) before the fetch
StartResults(prev) == <<>>

\* SearchModal.handleSearch up to the await
HandleSearch ==
  /\ isSearchModalOpen
  /\ ~isLoading
  /\ \E q \in Queries :
       IF QueryTooShort(q)
       THEN /\ error' = "validation"
            /\ last' = [op |-> "search", query |-> q, fetch |-> FALSE]
            /\ UNCHANGED <<results, isLoading>>
       ELSE /\ isLoading' = TRUE
            /\ error' = "null"
            /\ results' = StartResults(results)
            /\ last' = [op |-> "search", query |-> q, fetch |-> TRUE]
  /\ UNCHANGED <<dataVars, isSearchModalOpen, trackedIds, modalVars, addRequests>>

\* SearchModal.handleSearch after the await: the fetch answered or failed
FetchDone ==
  /\ isSearchModalOpen
  /\ isLoading
  /\ \/ /\ \E r \in Responses : results' = r
        /\ error' = error
        /\ last' = [op |-> "fetch", ok |-> TRUE]
     \/ /\ results' = results
        /\ error' = "api"
        /\ last' = [op |-> "fetch", ok |-> FALSE]
  /\ isLoading' = FALSE
  /\ UNCHANGED <<dataVars, isSearchModalOpen, trackedIds, modalVars, addRequests>>

\* the Track button of a result is enabled: !trackedIds.has(result.mal_id)
TrackEnabled(ids, result) == result.mal_id \notin ids

\* slip: the clicked id is not recorded
MarkTrackedForgets(ids, result) == ids

\* setTrackedIds(prev => new Set(prev).add(result.mal_id))
MarkTracked(ids, result) == ids \cup {result.mal_id}

\* addDoc(ref, newItem): the store assigns the next document id
AddDoc(st, id, newItem) ==
  [d \in DOMAIN st \cup {id} |-> IF d = id THEN newItem ELSE st[d]]

\* SearchModal.handleTrack: handleAddItem(result), then the id is marked
HandleTrack ==
  /\ userId # "none"
  /\ isSearchModalOpen
  /\ \E result \in Range(results) :
       /\ TrackEnabled(trackedIds, result)
       /\ LET tracked == IsAlreadyTracked(items, result) IN
          /\ tracked \/ now < MaxNow
          /\ \E ok \in (IF tracked \/ nextId > MaxDocs THEN {FALSE} ELSE BOOLEAN) :
               /\ IF ~tracked /\ ok
                  THEN /\ store' = AddDoc(store, nextId, NewItem(result, now))
                       /\ nextId' = nextId + 1
                  ELSE UNCHANGED <<store, nextId>>
               /\ last' = [op |-> "add", apiResult |-> result, wrote |-> ~tracked,
                           ok |-> ok, items |-> items, before |-> DOMAIN store]
          /\ now' = IF tracked THEN now ELSE now + 1
       /\ trackedIds' = MarkTracked(trackedIds, result)
       /\ addRequests' = [addRequests EXCEPT ![result.mal_id] = Min(2, @ + 1)]
  /\ UNCHANGED <<userId, items, isSearchModalOpen, results, isLoading, error,
                 modalVars>>

\* setDoc(ref, payload, {merge: true}): the document is created when it is gone
SetDoc(st, id, payload) ==
  [d \in DOMAIN st \cup {id} |->
     IF d = id THEN (IF id \in DOMAIN st THEN Overlay(st[id], payload) ELSE payload)
     ELSE st[d]]

\* a card's Next / -1 control: handleUpdateChapter(item, 1 or -1)
HandleUpdateChapter ==
  /\ userId # "none"
  /\ NoModal
  /\ \E item \in Range(items), delta \in {1, -1}, ok \in BOOLEAN :
       /\ delta = -1 => item.currentChapter.n > 0
       /\ delta = 1 => item.currentChapter.n < MaxChapter
       /\ LET payload == UpdateChapterPayload(item, delta, now) IN
          /\ store' = IF ok THEN SetDoc(store, item.id, payload) ELSE store
          /\ last' = [op |-> "advance", item |-> item, delta |-> delta,
                      payload |-> payload, ok |-> ok,
                      before |-> IF item.id \in DOMAIN store
                                 THEN <<store[item.id]>> ELSE <<>>]
  /\ now < MaxNow /\ now' = now + 1
  /\ UNCHANGED <<userId, nextId, items, searchVars, modalVars, addRequests>>

\* a card's edit control: setIsEditing(item)
EditClick ==
  /\ userId # "none"
  /\ NoModal
  /\ \E item \in Range(items) : isEditing' = <<item>>
  /\ last' = NoOp
  /\ UNCHANGED <<dataVars, searchVars, isDeleting, addRequests>>

\* EditModal onClose
CloseEdit ==
  /\ isEditing # <<>>
  /\ isEditing' = <<>>
  /\ last' = NoOp
  /\ UNCHANGED <<dataVars, searchVars, isDeleting, addRequests>>

\* EditModal submit: handleSaveEdit(updatedData)
HandleSaveEdit ==
  /\ isEditing # <<>>
  /\ \E changes \in QuickEdits,
        rating \in {isEditing[1].rating.n} \cup StarChoices,
        ok \in BOOLEAN :
       LET updatedData == FormSubmit(isEditing[1], changes, rating)
           payload == ItemToSave(isEditing[1], updatedData, now)
       IN /\ store' = IF ok THEN SetDoc(store, isEditing[1].id, payload) ELSE store
          /\ isEditing' = IF ok THEN <<>> ELSE isEditing
          /\ last' = [op |-> "edit", item |-> isEditing[1], form |-> updatedData,
                      payload |-> payload, ok |-> ok]
  /\ now < MaxNow /\ now' = now + 1
  /\ UNCHANGED <<userId, nextId, items, searchVars, isDeleting, addRequests>>

\* a card's delete control: handleDeleteItem(item)
HandleDeleteItem ==
  /\ userId # "none"
  /\ NoModal
  /\ \E item \in Range(items) : isDeleting' = <<item>>
  /\ last' = NoOp
  /\ UNCHANGED <<dataVars, searchVars, isEditing, addRequests>>

\* ConfirmDeleteModal onCancel
CancelDelete ==
  /\ isDeleting # <<>>
  /\ isDeleting' = <<>>
  /\ last' = NoOp
  /\ UNCHANGED <<dataVars, searchVars, isEditing, addRequests>>

\* ConfirmDeleteModal onConfirm: executeDelete
\* slip: the item is taken off the in-memory list before the delete is sent
ExecuteDeleteOptimistic ==
  /\ isDeleting # <<>>
  /\ \E ok \in BOOLEAN :
       /\ store' = IF ok THEN [d \in DOMAIN store \ {isDeleting[1].id} |-> store[d]]
                   ELSE store
       /\ last' = [op |-> "delete", item |-> isDeleting[1], ok |-> ok]
  /\ items' = SelectSeq(items, LAMBDA item : item.id # isDeleting[1].id)
  /\ isDeleting' = <<>>
  /\ UNCHANGED <<userId, nextId, now, searchVars, isEditing, addRequests>>

ExecuteDelete ==
  /\ isDeleting # <<>>
  /\ \E ok \in BOOLEAN :
       /\ store' = IF ok THEN [d \in DOMAIN store \ {isDeleting[1].id} |-> store[d]]
                   ELSE store
       /\ last' = [op |-> "delete", item |-> isDeleting[1], ok |-> ok]
  /\ isDeleting' = <<>>
  /\ UNCHANGED <<userId, nextId, items, now, searchVars, isEditing, addRequests>>

Next ==
  \/ AuthReady
  \/ OnSnapshot
  \/ OpenSearchModal
  \/ CloseSearchModal
  \/ HandleSearch
  \/ FetchDone
  \/ HandleTrack
  \/ HandleUpdateChapter
  \/ EditClick
  \/ CloseEdit
  \/ HandleSaveEdit
  \/ HandleDeleteItem
  \/ CancelDelete
  \/ ExecuteDelete

Spec == Init /\ [][Next]_vars

----------------------------------------------------------------------------
(* The two handlers as functions of their arguments: one item, each call    *)
(* made on the item as the previous call left it (its snapshot has been     *)
(* delivered), with every delta and every form content.                     *)

PolicyDocs ==
  {[apiId |-> 7, title |-> <<"X">>, type |-> "Manga", status |-> s,
    currentChapter |-> Num(c), totalChapters |-> Num(t), imageUrl |-> "u7",
    rating |-> Num(0), notes |-> "", lastUpdated |-> Num(0)] :
     s \in StatusValues, c \in 0..MaxChapter, t \in 0..MaxChapter}

PolicyDeltas == (0 - MaxDelta)..MaxDelta

PolicyInit ==
  /\ userId = "u1"
  /\ \E doc \in PolicyDocs : store = AddDoc(<<>>, 1, doc)
  /\ nextId = 2
  /\ items = NormalizeSnapshot(store)
  /\ now = 1
  /\ isSearchModalOpen = FALSE
  /\ results = <<>>
  /\ isLoading = FALSE
  /\ error = "null"
  /\ trackedIds = {}
  /\ isEditing = <<>>
  /\ isDeleting = <<>>
  /\ last = NoOp
  /\ addRequests = NoRequests

\* no handler call is waiting for its snapshot
Idle == last.op \in {"none", "snapshot"}

\* handleUpdateChapter(item, delta) on the current item
PolicyAdvance ==
  /\ Idle
  /\ items[1].currentChapter.n <= MaxChapter
  /\ \E delta \in PolicyDeltas :
       LET payload == UpdateChapterPayload(items[1], delta, now) IN
       /\ store' = SetDoc(store, items[1].id, payload)
       /\ last' = [op |-> "advance", item |-> items[1], delta |-> delta,
                   payload |-> payload, ok |-> TRUE]
  /\ UNCHANGED <<userId, nextId, items, now, searchVars, modalVars, addRequests>>

\* the edit form opened on the current item and submitted
PolicyEdit ==
  /\ Idle
  /\ \E changes \in EditChanges, rating \in {items[1].rating.n} \cup StarChoices :
       LET updatedData == FormSubmit(items[1], changes, rating)
           payload == ItemToSave(items[1], updatedData, now)
       IN /\ store' = SetDoc(store, items[1].id, payload)
          /\ last' = [op |-> "edit", item |-> items[1], form |-> updatedData,
                      payload |-> payload, ok |-> TRUE]
  /\ UNCHANGED <<userId, nextId, items, now, searchVars, modalVars, addRequests>>

PolicyNext == PolicyAdvance \/ PolicyEdit \/ OnSnapshot

SpecPolicy == PolicyInit /\ [][PolicyNext]_vars

----------------------------------------------------------------------------
(* Properties of handleUpdateChapter and handleSaveEdit, under SpecPolicy *)

Advanced == last.op = "advance"
Edited == last.op = "edit"

\* C1: advance writes newChapter = max(0, currentChapter + delta) and the
\* status of the first matching rule: PlanToRead with newChapter > 0 becomes
\* Reading; else total > 0 and newChapter >= total becomes Completed; else
\* Completed with 0 < newChapter < total becomes Reading; else Reading with
\* newChapter = 0 becomes PlanToRead; else the status is unchanged.
C1_AdvanceRules ==
  Advanced =>
    LET c == last.item.currentChapter.n
        t == last.item.totalChapters.n
        s == last.item.status
        n == store[last.item.id].currentChapter.n
        r == store[last.item.id].status
    IN /\ n = (IF c + last.delta > 0 THEN c + last.delta ELSE 0)
       /\ IF n > 0 /\ s = "Plan to Read" THEN r = "Reading"
          ELSE IF t > 0 /\ n >= t THEN r = "Completed"
          ELSE IF n > 0 /\ n < t /\ s = "Completed" THEN r = "Reading"
          ELSE IF n = 0 /\ s = "Reading" THEN r = "Plan to Read"
          ELSE r = s

\* C1 witness: a Completed item stepped back below its total is written as Reading
C1_Witness ==
  /\ Advanced
  /\ last.item.status = "Completed"
  /\ last.delta < 0
  /\ store[last.item.id].status = "Reading"
  /\ store[last.item.id].currentChapter.n < last.item.totalChapters.n

\* C3 as stated: advance leaves a Dropped item Dropped, whatever the delta,
\* the chapter and the total.
C3_DroppedNeverChanges ==
  (Advanced /\ last.item.status = "Dropped") => last.payload.status = "Dropped"

\* C3 as amended: advance leaves a Dropped item Dropped unless the total is
\* known and the new chapter reaches it, and then it becomes Completed; it
\* never becomes Reading or PlanToRead.
C3_DroppedUnlessTotalReached ==
  (Advanced /\ last.item.status = "Dropped") =>
    LET n == last.payload.currentChapter.n
        t == last.item.totalChapters.n
    IN last.payload.status = (IF t > 0 /\ n >= t THEN "Completed" ELSE "Dropped")

\* C3 witness: the documented edge case, Dropped at chapter 0 advanced by +1
C3_Witness ==
  /\ Advanced
  /\ last.item.status = "Dropped"
  /\ last.item.currentChapter.n = 0
  /\ last.delta = 1
  /\ last.payload.currentChapter.n = 1
  /\ last.payload.status = "Dropped"

\* C4: in the payload written by advance or by the edit form, a known total
\* that the chapter reaches or exceeds means status Completed.
C4_TotalReachedIsCompleted ==
  (Advanced \/ Edited) =>
    ((last.payload.totalChapters.n > 0
       /\ last.payload.currentChapter.n >= last.payload.totalChapters.n)
      => last.payload.status = "Completed")

\* C5: the chapter an advance writes is never negative, and a negative delta
\* that would pass 0 writes exactly 0.
C5_AdvanceFloor ==
  Advanced =>
    /\ last.payload.currentChapter.n >= 0
    /\ store[last.item.id].currentChapter.n >= 0
    /\ (last.item.currentChapter.n + last.delta < 0
          => store[last.item.id].currentChapter.n = 0)

\* C5 witness: an item at a chapter >= 0 stepped back past 0 is stored at 0
C5_Witness ==
  /\ Advanced
  /\ last.item.currentChapter.n >= 0
  /\ last.item.currentChapter.n + last.delta < 0
  /\ store[last.item.id].currentChapter.n = 0

\* C6: the edit form saves Reading for a submitted PlanToRead with a chapter
\* above 0; else Completed when the total is known and reached; else the
\* submitted status as it is.
C6_EditRules ==
  Edited =>
    LET s == last.form.status
        c == store[last.item.id].currentChapter.n
        t == store[last.item.id].totalChapters.n
        r == store[last.item.id].status
    IN /\ (s = "Plan to Read" /\ c > 0) => r = "Reading"
       /\ (~(s = "Plan to Read" /\ c > 0) /\ t > 0 /\ c >= t) => r = "Completed"
       /\ (~(s = "Plan to Read" /\ c > 0) /\ ~(t > 0 /\ c >= t)) => r = s

\* C6 witness: Completed submitted with the chapter below the total stays Completed
C6_Witness ==
  /\ Edited
  /\ last.form.status = "Completed"
  /\ store[last.item.id].currentChapter.n < store[last.item.id].totalChapters.n
  /\ store[last.item.id].status = "Completed"

\* C7: the chapter, total and rating the edit form writes are never negative.
C7_EditNonNegative ==
  Edited =>
    /\ last.payload.currentChapter.n >= 0
    /\ last.payload.totalChapters.n >= 0
    /\ last.payload.rating.n >= 0

----------------------------------------------------------------------------
(* Properties of adding from search, under Spec *)

Added == last.op = "add"

\* some item of the collection the handler saw carries the candidate's id
SawExternalId(its, id) ==
  \E i \in 1..Len(its) : "apiId" \in DOMAIN its[i] /\ its[i].apiId = id

\* C2: a candidate with N > 0 chapters added to an empty collection is
\* stored as PlanToRead at chapter 0 of N, and an advance by +N on that item
\* writes Completed at chapter N.
C2_AddThenAdvanceCompletes ==
  /\ (Added /\ last.ok /\ last.before = {} /\ Truthy(last.apiResult.chapters)) =>
       \E d \in DOMAIN store :
         /\ store[d].status = "Plan to Read"
         /\ store[d].currentChapter = Num(0)
         /\ store[d].totalChapters = last.apiResult.chapters
  /\ (/\ Advanced
      /\ last.item.status = "Plan to Read"
      /\ last.item.currentChapter.n = 0
      /\ last.item.totalChapters.n > 0
      /\ last.delta = last.item.totalChapters.n) =>
       /\ last.payload.status = "Completed"
       /\ last.payload.currentChapter.n = last.item.totalChapters.n

\* C8: no two stored items of the user carry the same external id.
C8_ExternalIdUnique ==
  \A d1 \in DOMAIN store, d2 \in DOMAIN store :
    d1 # d2 => store[d1].apiId # store[d2].apiId

\* C9: the add action creates a record exactly when no item of the in-memory
\* collection carries the candidate's external id, and otherwise writes
\* nothing.
C9_AddIffNotInMemory ==
  Added =>
    LET seen == SawExternalId(last.items, last.apiResult.mal_id) IN
    /\ last.wrote <=> ~seen
    /\ (~seen /\ last.ok) =>
         \E d \in DOMAIN store \ last.before :
           /\ DOMAIN store = last.before \cup {d}
           /\ store[d].apiId = last.apiResult.mal_id
    /\ seen => (DOMAIN store = last.before /\ ~last.ok)

\* C9 witness: Track on a candidate whose id an in-memory item carries
C9_Witness ==
  /\ Added
  /\ SawExternalId(last.items, last.apiResult.mal_id)
  /\ ~last.wrote
  /\ last.apiResult.mal_id \in trackedIds

\* C10: in one open search modal at most one add request is made per external
\* id, and an id once tracked keeps its Track control disabled, whether or
\* not the write succeeded.
C10_TrackOncePerSession ==
  \A c \in Catalog :
    /\ addRequests[c.mal_id] <= 1
    /\ addRequests[c.mal_id] >= 1 => (isSearchModalOpen /\ ~TrackEnabled(trackedIds, c))

\* C10 witness: the write of a tracked candidate failed and its control is disabled
C10_Witness ==
  /\ Added
  /\ last.wrote
  /\ ~last.ok
  /\ isSearchModalOpen
  /\ last.apiResult \in Range(results)
  /\ ~TrackEnabled(trackedIds, last.apiResult)
  /\ addRequests[last.apiResult.mal_id] = 1

\* ---------------------------------------------------------------------------
\* List projection: sortedAndFilteredItems (App.jsx 677-707)
\* ---------------------------------------------------------------------------

MaxItems == 3

\* UTF-16 code units of the characters used in titles and search text
CharCode(c) ==
  CASE c = " " -> 32
    [] c = "A" -> 65
    [] c = "B" -> 66
    [] c = "X" -> 88
    [] c = "a" -> 97
    [] c = "b" -> 98
    [] c = "x" -> 120
    [] c = "y" -> 121
    [] OTHER   -> 63

\* String.prototype.toLowerCase, one character
LowerChar(c) ==
  CASE c = "A" -> "a"
    [] c = "B" -> "b"
    [] c = "X" -> "x"
    [] OTHER   -> c

\* String.prototype.toLowerCase
ToLowerCase(cs) == [i \in 1..Len(cs) |-> LowerChar(cs[i])]

RECURSIVE StrLess(_, _)
\* the < of two strings: code unit by code unit, a proper prefix is smaller
StrLess(a, b) ==
  IF b = <<>> THEN FALSE
  ELSE IF a = <<>> THEN TRUE
  ELSE IF CharCode(a[1]) # CharCode(b[1]) THEN CharCode(a[1]) < CharCode(b[1])
  ELSE StrLess(Tail(a), Tail(b))

\* String.prototype.includes
Includes(cs, sub) ==
  \E i \in 1..(Len(cs) + 1) :
    /\ i + Len(sub) - 1 <= Len(cs)
    /\ SubSeq(cs, i, i + Len(sub) - 1) = sub

\* (item.title || '')
TitleOrEmpty(item) == IF "title" \in DOMAIN item THEN item.title ELSE <<>>

SortFields == {"lastUpdated", "title", "rating"}
SortDirections == {"asc", "desc"}

\* aVal < bVal after the comparator's conversion of the chosen field
KeyLess(a, b, sortField) ==
  IF sortField = "title"
  THEN StrLess(ToLowerCase(TitleOrEmpty(a)), ToLowerCase(TitleOrEmpty(b)))
  ELSE NumberOrZero(Get(a, sortField)) < NumberOrZero(Get(b, sortField))

\* the comparator handed to Array.prototype.sort
Compare(a, b, sortField, sortDirection) ==
  IF KeyLess(a, b, sortField) THEN (IF sortDirection = "asc" THEN 0 - 1 ELSE 1)
  ELSE IF KeyLess(b, a, sortField) THEN (IF sortDirection = "asc" THEN 1 ELSE 0 - 1)
  ELSE 0

\* one step of a stable sort: x goes behind everything that does not come after it
InsertStable(sorted, x, sortField, sortDirection) ==
  LET keep == {j \in 1..Len(sorted) : Compare(sorted[j], x, sortField, sortDirection) <= 0}
      k    == IF keep = {} THEN 0 ELSE CHOOSE j \in keep : \A m \in keep : m <= j
  IN  SubSeq(sorted, 1, k) \o <<x>> \o SubSeq(sorted, k + 1, Len(sorted))

RECURSIVE SortAsc(_, _)
SortAsc(its, sortField) ==
  IF its = <<>> THEN <<>>
  ELSE InsertStable(SortAsc(SubSeq(its, 1, Len(its) - 1), sortField),
                    its[Len(its)], sortField, "asc")

\* slip: descending order got by reversing the ascending result
SortItemsByReversal(its, sortField, sortDirection) ==
  LET asc == SortAsc(its, sortField)
  IN  IF sortDirection = "asc" THEN asc
      ELSE [i \in 1..Len(asc) |-> asc[Len(asc) + 1 - i]]

RECURSIVE SortItems(_, _, _)
\* [...items].sort(comparator): Array.prototype.sort is stable
SortItems(its, sortField, sortDirection) ==
  IF its = <<>> THEN <<>>
  ELSE InsertStable(SortItems(SubSeq(its, 1, Len(its) - 1), sortField, sortDirection),
                    its[Len(its)], sortField, sortDirection)

\* filterStatus === 'All' || item.status === filterStatus
MatchesStatus(item, filterStatus) ==
  \/ filterStatus = "All"
  \/ "status" \in DOMAIN item /\ item.status = filterStatus

\* slip: the search text is not lower-cased before the comparison
MatchesSearchCaseSensitive(item, searchQuery) ==
  Includes(ToLowerCase(TitleOrEmpty(item)), searchQuery)

\* (item.title || '').toLowerCase().includes(searchQuery.toLowerCase())
MatchesSearch(item, searchQuery) ==
  Includes(ToLowerCase(TitleOrEmpty(item)), ToLowerCase(searchQuery))

\* the value of the useMemo block
SortedAndFilteredItems(its, filterStatus, searchQuery, sortField, sortDirection) ==
  LET sorted   == SortItems(its, sortField, sortDirection)
      ByStatus(item) == MatchesStatus(item, filterStatus)
      BySearch(item) == MatchesSearch(item, searchQuery)
  IN  SelectSeq(SelectSeq(sorted, ByStatus), BySearch)

\* documents a collection can hold: written by this app, by an older version
\* of it or by hand, so a field can be missing or of another type
ProjectionDocs ==
  { [title |-> <<"b">>, status |-> Status.READING, rating |-> Num(2),
     lastUpdated |-> Num(1)],
    [title |-> <<"B", "a">>, status |-> Status.COMPLETED, rating |-> Num(2),
     lastUpdated |-> Str(<<"x">>)],
    [status |-> Status.READING, lastUpdated |-> Num(1)],
    [title |-> <<"A">>, status |-> Status.DROPPED, rating |-> Str(<<"1">>),
     lastUpdated |-> Num(2)],
    [title |-> <<"a">>, status |-> Status.READING, rating |-> Num(1),
     lastUpdated |-> Num(2)] }

ProjectionStores == UNION {[1..n -> ProjectionDocs] : n \in 0..MaxItems}

FilterChoices == {"All", Status.READING, Status.COMPLETED}
SearchTexts == {<<>>, <<"a">>, <<"A">>, <<"B", "a">>}

ProjectionInit ==
  /\ userId = "u1"
  /\ store \in ProjectionStores
  /\ nextId = Len(store) + 1
  /\ items = NormalizeSnapshot(store)
  /\ now = 0
  /\ isSearchModalOpen = FALSE
  /\ results = <<>>
  /\ isLoading = FALSE
  /\ error = "null"
  /\ trackedIds = {}
  /\ isEditing = <<>>
  /\ isDeleting = <<>>
  /\ last = NoOp
  /\ addRequests = NoRequests

\* a render with some choice of the four list controls
Project ==
  /\ last = NoOp
  /\ \E filterStatus \in FilterChoices, searchQuery \in SearchTexts,
        sortField \in SortFields, sortDirection \in SortDirections :
       last' = [op |-> "project",
                filterStatus |-> filterStatus, searchQuery |-> searchQuery,
                sortField |-> sortField, sortDirection |-> sortDirection,
                sorted |-> SortItems(items, sortField, sortDirection),
                out |-> SortedAndFilteredItems(items, filterStatus, searchQuery,
                                               sortField, sortDirection)]
  /\ UNCHANGED <<dataVars, searchVars, modalVars, addRequests>>

ProjectionNext == Project

SpecProjection == ProjectionInit /\ [][ProjectionNext]_vars

Projected == last.op = "project"

\* position of an item in a list of items with distinct ids
PosIn(its, item) == CHOOSE i \in 1..Len(its) : its[i] = item

\* C11: the sort step returns the in-memory items, each once, ordered by the
\* chosen field (title without regard to case and a missing title as the empty
\* text; rating and lastUpdated as numbers with a missing or non-numeric value
\* as 0) in the chosen direction, and items whose keys compare equal keep their
\* input order in both directions.
C11_SortOrderStable ==
  Projected =>
    LET s == last.sorted
        f == last.sortField
    IN  /\ Len(s) = Len(items)
        /\ Range(s) = Range(items)
        /\ \A i, j \in 1..Len(s) :
             i < j =>
               /\ IF last.sortDirection = "asc"
                  THEN ~KeyLess(s[j], s[i], f)
                  ELSE ~KeyLess(s[i], s[j], f)
               /\ (~KeyLess(s[i], s[j], f) /\ ~KeyLess(s[j], s[i], f))
                    => PosIn(items, s[i]) < PosIn(items, s[j])

\* a descending sort by rating in which a tie (a missing rating and a
\* non-numeric one would be 0; here two ratings of 2) kept its input order
\* while another pair was reordered
C11_Witness ==
  /\ Projected
  /\ last.sortDirection = "desc"
  /\ last.sorted # items
  /\ \E i, j \in 1..Len(last.sorted) :
       /\ i < j
       /\ ~KeyLess(last.sorted[i], last.sorted[j], last.sortField)
       /\ ~KeyLess(last.sorted[j], last.sorted[i], last.sortField)

\* C12: the projected list holds exactly the sorted items that pass the status
\* filter (All, or the exact status) and the search filter (empty text, or the
\* text found in the title without regard to case, a missing title as empty),
\* each once, unaltered and in the order of the sort.
C12_ProjectionExact ==
  Projected =>
    LET s   == last.sorted
        out == last.out
        Passes(item) ==
          /\ \/ last.filterStatus = "All"
             \/ "status" \in DOMAIN item /\ item.status = last.filterStatus
          /\ \/ last.searchQuery = <<>>
             \/ Includes(ToLowerCase(TitleOrEmpty(item)), ToLowerCase(last.searchQuery))
    IN  /\ Range(out) = {item \in Range(s) : Passes(item)}
        /\ Len(out) = Cardinality(Range(out))
        /\ \A i, j \in 1..Len(out) : i < j => PosIn(s, out[i]) < PosIn(s, out[j])

\* a search text with a capital letter kept some items and dropped others
C12_Witness ==
  /\ Projected
  /\ last.searchQuery = <<"B", "a">>
  /\ last.filterStatus # "All"
  /\ last.out # <<>>
  /\ Len(last.out) < Len(items)

----------------------------------------------------------------------------
(* Snapshot delivery over a collection that other writers also change *)

MaxRaw == 2

NumericFields == {"currentChapter", "totalChapters", "rating", "lastUpdated"}

\* doc.data() of documents found in the collection: well formed, empty,
\* with texts that are no numbers, and with numbers stored as texts
RawDocs ==
  { [title |-> <<"a">>, status |-> Status.READING, currentChapter |-> Num(1),
     totalChapters |-> Num(2), rating |-> Num(3), notes |-> "n",
     lastUpdated |-> Num(1)],
    [title |-> <<"b">>],
    [title |-> <<"x">>, status |-> Status.READING, currentChapter |-> Str(<<"a">>),
     totalChapters |-> Str(<<"a">>), rating |-> Str(<<"a">>),
     lastUpdated |-> Str(<<"a">>)],
    [title |-> <<"y">>, status |-> Status.DROPPED, currentChapter |-> Str(<<"2">>),
     totalChapters |-> Str(<<" ", "2">>), rating |-> Str(<<>>), notes |-> "",
     lastUpdated |-> Str(<<"2">>)] }

RawStores == UNION {[1..n -> RawDocs] : n \in 0..MaxRaw}

SnapshotInit ==
  /\ userId = "u1"
  /\ store \in RawStores
  /\ nextId = Len(store) + 1
  /\ items = <<>>
  /\ now = 0
  /\ isSearchModalOpen = FALSE
  /\ results = <<>>
  /\ isLoading = FALSE
  /\ error = "null"
  /\ trackedIds = {}
  /\ isEditing = <<>>
  /\ isDeleting = <<>>
  /\ last = NoOp
  /\ addRequests = NoRequests

\* another session, or a hand at the console, rewrites the collection
RemoteChange ==
  /\ \E st \in RawStores :
       /\ st # store
       /\ store' = st
       /\ nextId' = Len(st) + 1
  /\ last' = NoOp
  /\ UNCHANGED <<userId, items, now, searchVars, modalVars, addRequests>>

SnapshotNext == OnSnapshot \/ RemoteChange

SpecSnapshot == SnapshotInit /\ [][SnapshotNext]_vars

Snapshotted == last.op = "snapshot"

\* the in-memory item made from the document `id`
ItemOf(its, id) == CHOOSE item \in Range(its) : item.id = id

\* C13: after a delivery every item has currentChapter, totalChapters, rating
\* and lastUpdated equal to 0 whenever the stored field is missing or is not
\* numeric, and notes equal to the empty text when the stored field is missing.
C13_MissingOrNonNumericIsZero ==
  Snapshotted =>
    \A id \in DOMAIN last.docs :
      LET raw  == last.docs[id]
          item == ItemOf(items, id)
      IN  /\ \A f \in NumericFields :
               (f \notin DOMAIN raw \/ ToNumber(raw[f]).nan) => item[f] = Num(0)
          /\ "notes" \notin DOMAIN raw => item.notes = ""

\* C14: after a delivery the in-memory collection is the normalization of the
\* delivered documents and of nothing else, whatever was held before.
C14_ItemsAreLatestSnapshot ==
  Snapshotted => items = NormalizeSnapshot(last.docs)

\* a delivery of fewer documents replaced a larger collection
C14_Witness ==
  /\ Snapshotted
  /\ items # <<>>
  /\ last.had > Len(items)

----------------------------------------------------------------------------
(* Who changes the in-memory collection, and what a failed write leaves *)

HandlerOps == {"add", "advance", "edit", "delete"}

\* the last step was a handler call whose write or delete was rejected
WriteFailed == last.op \in HandlerOps /\ ~last.ok

\* controls that stay usable whatever the outcome of a write
Navigate == OpenSearchModal \/ CloseSearchModal \/ CloseEdit \/ CancelDelete

\* C15: the in-memory collection changes only in the snapshot-delivery step;
\* no add, advance, edit or delete handler modifies it.  A handler call whose
\* write or delete fails leaves the persisted and the in-memory collection
\* exactly as they were, and the user can go on acting.
C15_OnlySnapshotChangesItems ==
  /\ [][ /\ items' # items => last'.op = "snapshot"
         /\ last'.op \in HandlerOps => items' = items
         /\ (last'.op \in HandlerOps /\ ~last'.ok) => store' = store ]_vars
  /\ [](WriteFailed => ENABLED Navigate)

\* a delete was rejected: the document is still stored and still listed
C15_Witness ==
  /\ last.op = "delete"
  /\ ~last.ok
  /\ last.item.id \in DOMAIN store
  /\ last.item \in Range(items)

----------------------------------------------------------------------------
(* The search modal of a signed-in session; every fetch settles *)

SearchInit ==
  /\ userId = "u1"
  /\ store = <<>>
  /\ nextId = 1
  /\ items = <<>>
  /\ now = 0
  /\ isSearchModalOpen = FALSE
  /\ results = <<>>
  /\ isLoading = FALSE
  /\ error = "null"
  /\ trackedIds = {}
  /\ isEditing = <<>>
  /\ isDeleting = <<>>
  /\ last = NoOp
  /\ addRequests = NoRequests

SearchNext ==
  \/ OpenSearchModal
  \/ CloseSearchModal
  \/ HandleSearch
  \/ FetchDone
  \/ HandleTrack
  \/ OnSnapshot

\* the promise returned by fetch is settled sooner or later
SpecSearch == SearchInit /\ [][SearchNext]_vars /\ WF_vars(FetchDone)

Searched == last.op = "search"

\* C16: a search with a query of fewer than 3 characters issues no network
\* call; it only sets the validation message and leaves the loading flag and
\* the current result list as they were.
C16_ShortQueryOnlyValidates ==
  [][ (last'.op = "search" /\ Len(last'.query) < 3) =>
        /\ ~last'.fetch
        /\ error' = "validation"
        /\ isLoading' = isLoading
        /\ results' = results ]_vars

\* a two-character query was submitted while results were on display
C16_Witness ==
  /\ Searched
  /\ Len(last.query) < 3
  /\ results # <<>>
  /\ error = "validation"

FetchFailed == last.op = "fetch" /\ ~last.ok

\* C17: every issued search ends with the loading flag false; when the fetch
\* fails or answers with a non-2xx status the error message is set, the result
\* list is empty, and loading starts again only with a new search by the user.
C17_SearchSettles ==
  /\ isLoading ~> ~isLoading
  /\ [](FetchFailed => (error = "api" /\ results = <<>> /\ ~isLoading))
  /\ [][(FetchFailed /\ isLoading') => (last'.op = "search" /\ last'.fetch)]_vars

\* a fetch failed in a modal session in which an earlier search had given
\* results (one of them was tracked)
C17_Witness ==
  /\ FetchFailed
  /\ error = "api"
  /\ trackedIds # {}

----------------------------------------------------------------------------
(* The record written by handleSaveEdit *)

\* stored items with and without a cover image
EditDocs ==
  {[apiId |-> 7, title |-> <<"X">>, type |-> "Manga", status |-> s,
    currentChapter |-> Num(c), totalChapters |-> Num(MaxChapter), imageUrl |-> img,
    rating |-> Num(0), notes |-> "", lastUpdated |-> Num(0)] :
     s \in StatusValues, c \in 0..MaxChapter, img \in {"", "u7"}}

\* title and notes typed into the form
TextChanges == {[title |-> <<"y">>, notes |-> "n"]}

\* what the form is submitted with: nothing changed, a status or a chapter
\* count changed, or the texts changed with or without the status
FormChanges == QuickEdits \cup {Overlay(st, tx) : st \in StatusChanges, tx \in TextChanges}

EditInit ==
  /\ userId = "u1"
  /\ \E doc \in EditDocs : store = AddDoc(<<>>, 1, doc)
  /\ nextId = 2
  /\ items = NormalizeSnapshot(store)
  /\ now = 1
  /\ isSearchModalOpen = FALSE
  /\ results = <<>>
  /\ isLoading = FALSE
  /\ error = "null"
  /\ trackedIds = {}
  /\ isEditing = <<>>
  /\ isDeleting = <<>>
  /\ last = NoOp
  /\ addRequests = NoRequests

\* the edit form opened on the item, filled in and submitted
EditSubmit ==
  /\ Idle
  /\ \E changes \in FormChanges, rating \in {items[1].rating.n} \cup StarChoices :
       LET updatedData == FormSubmit(items[1], changes, rating)
           payload == ItemToSave(items[1], updatedData, now)
       IN /\ store' = SetDoc(store, items[1].id, payload)
          /\ last' = [op |-> "edit", item |-> items[1], form |-> updatedData,
                      payload |-> payload, ok |-> TRUE]
  /\ UNCHANGED <<userId, nextId, items, now, searchVars, modalVars, addRequests>>

EditNext == EditSubmit \/ OnSnapshot

SpecEdit == EditInit /\ [][EditNext]_vars

ComputedFields == {"currentChapter", "totalChapters", "rating", "status", "lastUpdated"}

\* C18: the record written by an edit is the original item overlaid with the
\* submitted fields and then with the computed currentChapter, totalChapters,
\* rating and status and the current time as lastUpdated; its id and apiId are
\* the original's, and its imageUrl is the submitted one when that is not empty
\* and the original's otherwise.
C18_EditRecordIsOverlay ==
  Edited =>
    LET p == last.payload
        o == last.item
        f == last.form
    IN  /\ DOMAIN p = DOMAIN o \cup DOMAIN f \cup ComputedFields \cup {"imageUrl"}
        /\ \A k \in DOMAIN p \ (ComputedFields \cup {"imageUrl"}) :
             p[k] = IF k \in DOMAIN f THEN f[k] ELSE o[k]
        /\ p.currentChapter = Num(NumberOrZero(Get(f, "currentChapter")))
        /\ p.totalChapters = Num(NumberOrZero(Get(f, "totalChapters")))
        /\ p.rating = Num(NumberOrZero(Get(f, "rating")))
        /\ p.status = SaveEditStatus(f.status, p.currentChapter.n, p.totalChapters.n)
        /\ p.lastUpdated = Num(now)
        /\ p.id = o.id
        /\ p.apiId = o.apiId
        /\ p.imageUrl = IF GetText(f, "imageUrl") # "" THEN f.imageUrl
                        ELSE GetText(o, "imageUrl")
        /\ store[o.id] = p

\* an edit that changed title and notes of an item with a cover image
C18_Witness ==
  /\ Edited
  /\ last.form.notes # last.item.notes
  /\ last.payload.notes = "n"
  /\ last.payload.title # last.item.title
  /\ last.payload.imageUrl = "u7"

----------------------------------------------------------------------------
(* Handler calls made on an in-memory item that is behind the collection *)

\* an item stored and delivered before the session's first handler call
StaleDocs ==
  {[apiId |-> 7, title |-> <<"X">>, type |-> "Manga", status |-> s,
    currentChapter |-> Num(c), totalChapters |-> Num(MaxChapter), imageUrl |-> "u7",
    rating |-> Num(0), notes |-> "", lastUpdated |-> Num(0)] :
     s \in StatusValues, c \in 0..MaxChapter}

StaleInit ==
  /\ userId = "u1"
  /\ \E doc \in StaleDocs : store = AddDoc(<<>>, 1, doc)
  /\ nextId = 2
  /\ items = NormalizeSnapshot(store)
  /\ now = 0
  /\ isSearchModalOpen = FALSE
  /\ results = <<>>
  /\ isLoading = FALSE
  /\ error = "null"
  /\ trackedIds = {}
  /\ isEditing = <<>>
  /\ isDeleting = <<>>
  /\ last = NoOp
  /\ addRequests = NoRequests

StaleNext ==
  \/ HandleUpdateChapter
  \/ EditClick
  \/ CloseEdit
  \/ HandleSaveEdit
  \/ OnSnapshot

SpecStale == StaleInit /\ [][StaleNext]_vars

AdvanceFields == {"currentChapter", "status", "lastUpdated"}

\* C19: the record persisted by an advance is computed from the in-memory item
\* the handler was called with: every field equals that item's, except
\* currentChapter = max(0, its currentChapter + delta), the status derived from
\* it and lastUpdated.  So a second +1 made before the snapshot of the first
\* leaves currentChapter one above the original, and a rating stored in
\* between is overwritten with the item's.
C19_AdvanceWritesCapturedItem ==
  (Advanced /\ last.ok) =>
    LET it  == last.item
        doc == store[it.id]
        nc  == Max(0, it.currentChapter.n + last.delta)
    IN  /\ \A f \in DOMAIN doc \ AdvanceFields : f \in DOMAIN it /\ doc[f] = it[f]
        /\ doc.currentChapter = Num(nc)
        /\ doc.status = UpdateChapterStatus(it, nc)
        /\ doc.lastUpdated.n >= it.lastUpdated.n
        /\ (last.delta = 1 /\ last.before # <<>>
              /\ last.before[1].currentChapter = Num(it.currentChapter.n + 1))
             => doc.currentChapter = Num(it.currentChapter.n + 1)

\* an advance made after a rating was stored and before it was delivered:
\* the stored rating is the in-memory item's again
C19_Witness ==
  /\ Advanced
  /\ last.ok
  /\ last.before # <<>>
  /\ last.before[1].rating # last.item.rating
  /\ store[last.item.id].rating = last.item.rating

====
